---- MODULE Spec2Model ----
(***************************************************************************)
(* Verification model of collagify-tg.                                     *)
(*                                                                         *)
(*  - App (src/cmd/main.go): the bot handlers that write the Badger        *)
(*    key/value store and the cron handler that builds the daily collage.  *)
(*  - storage (src/cmd/main_test.go:199-326): the sqlite store with its    *)
(*    chats and links tables.                                              *)
(*  - the layout computation of the cron handler as a pure function.       *)
(*  - the image tiler (src/pkg/image/image.go) on images of a few pixels.  *)
(*                                                                         *)
(* Time is counted in the unit of the stored timestamps (Unix seconds in   *)
(* the code); a calendar day is DayLen units long.                         *)
(***************************************************************************)
EXTENDS Integers, Sequences, FiniteSets, TLC

\* ------------------------------------------------------------------ bounds
DayLen == 2            \* timestamp units per calendar day
MaxTime == 2           \* posts arrive while the wall clock is in 0..MaxTime
MaxPosts == 2          \* photo posts stored by the bot
MaxRegs == 2           \* registration events handled by the bot
MaxFaults == 1         \* calls that fail in one run of the cron handler
MaxRows == 3           \* link rows inserted into the sqlite store
MaxStamp == 2          \* timestamps of the rows inserted into the sqlite store
MaxImages == 60        \* image counts the layout is computed for
MaxTiles == 3          \* images passed to the tiler
MaxGrid == 3           \* rows and cols passed to the tiler
MaxGoroutines == 3     \* goroutines calling the store at the same time

\* --------------------------------------------------------------- constants
MoscowOffset == 1      \* offset of Europe/Moscow from UTC, in time units
MaxCols == 5           \* min(5, len(images))
Sep == 10              \* the byte '_' of a key (digits are 0..9)
Minus == 11            \* the byte '-' printed by %d for a negative id
DateBase == 1000       \* a DateOnly field "YYYY-MM-DD", one fixed-width symbol
TimeBase == 2000       \* a TimeOnly field "hh:mm:ss", one fixed-width symbol

ChatIDs == {1, 11}
LocalOffsets == {0, MoscowOffset}   \* zone of the process (time.Local)

VARIABLES
    now,          \* wall clock (UTC)
    localOffset,  \* offset of time.Local
    chatsVal,     \* value under the Badger key "chats" (<<>>: key not found)
    kv,           \* Badger link rows: key -> download link
    nextID,       \* file id of the next photo post that is stored
    pc,           \* cronHandler: "idle", "loop", "done", "crashed"
    chats,        \* cronHandler: chats read from the store
    idx,          \* cronHandler: index of the chat being processed
    date,         \* cronHandler: date computed at line 161
    funcErr,      \* cronHandler: joined error
    startID,      \* nextID when the run started
    fired,        \* the cron entry was activated at the current time
    faults,       \* failures of the store and of the network in this run
    sentPhotos,   \* photos received by the Telegram server in this run
    delivered,    \* links that were part of some sent collage
    deletedMessages, \* deleteMessages requests received by the Telegram server
    chatsTbl,     \* storage: table chats, chat_id (primary key) -> timestamp
    linksTbl,     \* storage: table links, rows in insertion order
    ret,          \* storage: what the last operation returned
    layoutN,      \* layout: len(images)
    layoutOut,    \* layout: not computed yet, panic, or the computed cols and rows
    tileIn,       \* tiler: the arguments of Concat
    tileOut,      \* tiler: not called yet, or what Concat did
    mu,           \* storage: the RWMutex, its writer (0: none) and its readers
    calls,        \* storage: what each goroutine is calling, and how far it is
    closed        \* storage: sql.DB.Close has been called

storeVars == <<chatsTbl, linksTbl, ret>>

layoutVars == <<layoutN, layoutOut>>

tilerVars == <<tileIn, tileOut>>

lockVars == <<mu, calls, closed>>

appVars == <<now, localOffset, chatsVal, kv, nextID, pc, chats, idx,
             date, funcErr, startID, fired, faults, sentPhotos, delivered,
             deletedMessages>>

\* ------------------------------------------------------------ time and keys
In(t, offset) == t + offset
Day(lt) == lt \div DayLen
Clock(lt) == lt % DayLen
DateOnly(lt) == DateBase + Day(lt)
TimeOnly(lt) == TimeBase + Clock(lt)
CronClock == DayLen - 1

\* The days after the last post are all alike (no row of the store carries
\* their date), so one day, LaterDay, stands for all of them: when it ends the
\* clock starts it again.
LaterDay == Day(In(MaxTime, MoscowOffset)) + 1
LaterStart == LaterDay * DayLen - MoscowOffset
LaterEnd == LaterStart + DayLen - 1

RECURSIVE Digits(_)
Digits(n) == IF n < 10 THEN <<n>> ELSE Digits(n \div 10) \o <<n % 10>>

FmtInt(n) == IF n < 0 THEN <<Minus>> \o Digits(0 - n) ELSE Digits(n)

LinkKey(chatID, lt) == FmtInt(chatID) \o <<Sep, DateOnly(lt), Sep, TimeOnly(lt)>>

\* KeyPrefix made of the chat id alone
KeyPrefixChatOnly(chatID, d) == FmtInt(chatID)

KeyPrefix(chatID, d) == FmtInt(chatID) \o <<Sep, d, Sep>>

HasPrefix(k, p) == Len(p) <= Len(k) /\ SubSeq(k, 1, Len(p)) = p

RECURSIVE LexLess(_, _)
LexLess(a, b) ==
    IF a = <<>> THEN b # <<>>
    ELSE IF b = <<>> THEN FALSE
    ELSE IF Head(a) # Head(b) THEN Head(a) < Head(b)
    ELSE LexLess(Tail(a), Tail(b))

RECURSIVE SortKeys(_)
SortKeys(S) ==
    IF S = {} THEN <<>>
    ELSE LET m == CHOOSE k \in S : \A o \in S \ {k} : LexLess(k, o)
         IN <<m>> \o SortKeys(S \ {m})

\* values of the keys with the prefix, in key order (lines 166-183)
ReadLinks(chatID, d) ==
    LET ks == SortKeys({k \in DOMAIN kv : HasPrefix(k, KeyPrefix(chatID, d))})
    IN [i \in 1..Len(ks) |-> kv[ks[i]]]

\* ------------------------------------------------------------------ layout
Min(a, b) == IF a < b THEN a ELSE b

Cols(n) == Min(MaxCols, n)

\* Rows without the increment of line 212
RowsFloor(n, cols) == n \div cols

Rows(n, cols) == IF n % cols # 0 THEN n \div cols + 1 ELSE n \div cols

\* ---------------------------------------------------------------- handlers
Photo(id) == << [FileID |-> id, FileSize |-> 10], [FileID |-> 0, FileSize |-> 2] >>

LargestPhoto(photo) ==
    LET i == CHOOSE i \in DOMAIN photo :
                 \A j \in DOMAIN photo : photo[j].FileSize <= photo[i].FileSize
    IN photo[i]

FileDownloadLink(fileID) == <<"file", fileID>>

Put(f, k, v) == [x \in DOMAIN f \cup {k} |-> IF x = k THEN v ELSE f[x]]

AppInit ==
    /\ now = 0
    /\ chatsVal = <<>>
    /\ kv = <<>>
    /\ nextID = 1
    /\ pc = "idle"
    /\ chats = <<>>
    /\ idx = 0
    /\ date = 0
    /\ funcErr = <<>>
    /\ startID = 0
    /\ fired = FALSE
    /\ faults = <<>>
    /\ sentPhotos = <<>>
    /\ delivered = {}
    /\ deletedMessages = <<>>

StoreInit ==
    /\ chatsTbl = <<>>
    /\ linksTbl = <<>>
    /\ ret = [op |-> "none"]

TilerInit ==
    /\ tileIn = [images |-> <<>>, rows |-> 0, cols |-> 0]
    /\ tileOut = [st |-> "none"]

\* the goroutines that call the store
Goroutines == 1..MaxGoroutines

LockInit ==
    /\ mu = [writer |-> 0, readers |-> {}]
    /\ calls = [g \in Goroutines |-> [op |-> "none", at |-> "idle"]]
    /\ closed = FALSE

\* the process runs on a host whose zone is Europe/Moscow
Init ==
    /\ localOffset = MoscowOffset
    /\ AppInit
    /\ StoreInit
    /\ layoutN = 0
    /\ layoutOut = [st |-> "none"]
    /\ TilerInit
    /\ LockInit

\* time passes; the cron entry of a running process is activated before its
\* minute is over, and a run ends within the time unit in which it started
Tick ==
    /\ pc \notin {"loop", "done"}
    /\ ~(pc = "idle" /\ Clock(In(now, localOffset)) = CronClock /\ ~fired)
    /\ now' = IF now = LaterEnd THEN LaterStart ELSE now + 1
    /\ fired' = FALSE
    /\ UNCHANGED <<localOffset, chatsVal, kv, nextID, pc, chats, idx,
                   date, funcErr, startID, faults, sentPhotos, delivered,
                   deletedMessages,
                   storeVars, layoutVars, tilerVars, lockVars>>

\* lines 259-295; the registrations arrive while the channels post, and
\* between the runs (a run reads the list once, when it starts)
BotHandleMyChatMember(chatID) ==
    /\ now <= MaxTime
    /\ pc = "idle"
    /\ Len(chatsVal) < MaxRegs
    /\ chatsVal' = Append(chatsVal, chatID)
    /\ UNCHANGED <<now, localOffset, kv, nextID, pc, chats, idx,
                   date, funcErr, startID, fired, faults, sentPhotos, delivered,
                   deletedMessages,
                   storeVars, layoutVars, tilerVars, lockVars>>

\* lines 297-331; Telegram delivers the posts of the channels the bot is a
\* member of, which are registered
BotHandleChannelPost(chatID, mDate, photo, getFileOK) ==
    /\ now <= MaxTime
    /\ \E i \in DOMAIN chatsVal : chatsVal[i] = chatID
    /\ pc \notin {"crashed", "done"}
    /\ nextID <= MaxPosts
    /\ IF Len(photo) = 0 \/ ~getFileOK
         THEN UNCHANGED <<kv, nextID>>
         ELSE LET link == FileDownloadLink(LargestPhoto(photo).FileID)
                  lt == In(mDate, MoscowOffset)
              IN /\ kv' = Put(kv, LinkKey(chatID, lt), link)
                 /\ nextID' = nextID + 1
    /\ UNCHANGED <<now, localOffset, chatsVal, pc, chats, idx,
                   date, funcErr, startID, fired, faults, sentPhotos, delivered,
                   deletedMessages,
                   storeVars, layoutVars, tilerVars, lockVars>>

Filename(d) == <<"collage_", d, ".jpg">>

\* CronStart without the return of lines 155-157 when the read fails
CronStartIgnoresListError(listOK) ==
    /\ pc = "idle"
    /\ Clock(In(now, localOffset)) = CronClock
    /\ ~fired
    /\ fired' = TRUE
    /\ startID' = nextID
    /\ sentPhotos' = <<>>
    /\ idx' = 1
    /\ faults' = IF listOK THEN <<>> ELSE << [kind |-> "list", chat |-> 0] >>
    /\ IF chatsVal = <<>>
         THEN /\ pc' = "done"
              /\ chats' = <<>>
              /\ funcErr' = << <<"fetch registered chats", 0>> >>
              /\ date' = date
         ELSE /\ pc' = "loop"
              /\ chats' = chatsVal
              /\ funcErr' = <<>>
              /\ date' = DateOnly(In(now, MoscowOffset))
    /\ UNCHANGED <<now, localOffset, chatsVal, kv, nextID, delivered,
                   deletedMessages,
                   storeVars, layoutVars, tilerVars, lockVars>>

\* lines 128-162: read the registered chats, compute the date
CronStart(listOK) ==
    /\ pc = "idle"
    /\ Clock(In(now, localOffset)) = CronClock
    /\ ~fired
    /\ fired' = TRUE
    /\ startID' = nextID
    /\ sentPhotos' = <<>>
    /\ idx' = 1
    /\ faults' = IF listOK THEN <<>> ELSE << [kind |-> "list", chat |-> 0] >>
    /\ IF chatsVal = <<>> \/ ~listOK
         THEN /\ pc' = "done"
              /\ chats' = <<>>
              /\ funcErr' = << <<"fetch registered chats", 0>> >>
              /\ date' = date
         ELSE /\ pc' = "loop"
              /\ chats' = chatsVal
              /\ funcErr' = <<>>
              /\ date' = DateOnly(In(now, MoscowOffset))
    /\ UNCHANGED <<now, localOffset, chatsVal, kv, nextID, delivered,
                   deletedMessages,
                   storeVars, layoutVars, tilerVars, lockVars>>

RECURSIVE Keep(_, _, _)
Keep(s, failed, i) ==
    IF i > Len(s) THEN <<>>
    ELSE (IF i \in failed THEN <<>> ELSE <<s[i]>>) \o Keep(s, failed, i + 1)

RECURSIVE DownloadErrs(_, _, _)
DownloadErrs(s, failed, i) ==
    IF i > Len(s) THEN <<>>
    ELSE (IF i \in failed THEN << <<"download link", s[i]>> >> ELSE <<>>)
         \o DownloadErrs(s, failed, i + 1)

Range(s) == {s[i] : i \in DOMAIN s}

DownloadFaults(chatID, s, failed, i) ==
    [j \in 1..Len(DownloadErrs(s, failed, i)) |-> [kind |-> "download", chat |-> chatID]]

\* CronChannel deleting the rows it read once it has tried to send
CronChannelDropsRows(readOK, failed, decodeOK, sendOK) ==
    /\ pc = "loop"
    /\ idx <= Len(chats)
    /\ LET chatID == chats[idx]
           links == ReadLinks(chatID, date)
           images == Keep(links, failed, 1)
           errs == DownloadErrs(links, failed, 1)
           dfaults == DownloadFaults(chatID, links, failed, 1)
           cols == Cols(Len(images))
       IN /\ failed \subseteq DOMAIN links
          /\ IF ~readOK
               THEN /\ funcErr' = Append(funcErr, <<"reading keys by prefix", chatID>>)
                    /\ faults' = Append(faults, [kind |-> "read", chat |-> chatID])
                    /\ idx' = idx + 1
                    /\ UNCHANGED <<pc, sentPhotos, delivered, kv>>
             ELSE IF cols = 0
               THEN /\ pc' = "crashed"           \* integer divide by zero, line 210
                    /\ funcErr' = funcErr \o errs
                    /\ faults' = faults \o dfaults
                    /\ UNCHANGED <<idx, sentPhotos, delivered, kv>>
             ELSE IF ~decodeOK
               THEN /\ funcErr' = (funcErr \o errs) \o << <<"make collage", chatID>> >>
                    /\ faults' = Append(faults \o dfaults, [kind |-> "decode", chat |-> chatID])
                    /\ idx' = idx + 1
                    /\ UNCHANGED <<pc, sentPhotos, delivered, kv>>
             ELSE IF ~sendOK
               THEN /\ funcErr' = (funcErr \o errs) \o << <<"send collage", chatID>> >>
                    /\ faults' = Append(faults \o dfaults, [kind |-> "send", chat |-> chatID])
                    /\ idx' = idx + 1
                    /\ kv' = [k \in DOMAIN kv \ {x \in DOMAIN kv : HasPrefix(x, KeyPrefix(chatID, date))} |-> kv[k]]
                    /\ UNCHANGED <<pc, sentPhotos, delivered>>
             ELSE /\ funcErr' = funcErr \o errs
                  /\ faults' = faults \o dfaults
                  /\ idx' = idx + 1
                  /\ sentPhotos' = Append(sentPhotos,
                         [chat |-> chatID, filename |-> Filename(date),
                          images |-> images, cols |-> cols,
                          rows |-> Rows(Len(images), cols)])
                  /\ delivered' = delivered \cup Range(images)
                  /\ kv' = [k \in DOMAIN kv \ {x \in DOMAIN kv : HasPrefix(x, KeyPrefix(chatID, date))} |-> kv[k]]
                  /\ pc' = pc
    /\ Len(faults') <= MaxFaults
    /\ UNCHANGED <<now, localOffset, chatsVal, nextID, chats,
                   date, startID, fired, deletedMessages,
                   storeVars, layoutVars, tilerVars, lockVars>>

\* CronChannel sending nothing for a group of which a download failed
CronChannelAllOrNothing(readOK, failed, decodeOK, sendOK) ==
    /\ pc = "loop"
    /\ idx <= Len(chats)
    /\ LET chatID == chats[idx]
           links == ReadLinks(chatID, date)
           images == Keep(links, failed, 1)
           errs == DownloadErrs(links, failed, 1)
           dfaults == DownloadFaults(chatID, links, failed, 1)
           cols == Cols(Len(images))
       IN /\ failed \subseteq DOMAIN links
          /\ IF ~readOK
               THEN /\ funcErr' = Append(funcErr, <<"reading keys by prefix", chatID>>)
                    /\ faults' = Append(faults, [kind |-> "read", chat |-> chatID])
                    /\ idx' = idx + 1
                    /\ UNCHANGED <<pc, sentPhotos, delivered>>
             ELSE IF cols = 0
               THEN /\ pc' = "crashed"           \* integer divide by zero, line 210
                    /\ funcErr' = funcErr \o errs
                    /\ faults' = faults \o dfaults
                    /\ UNCHANGED <<idx, sentPhotos, delivered>>
             ELSE IF failed # {}
               THEN /\ funcErr' = funcErr \o errs
                    /\ faults' = faults \o dfaults
                    /\ idx' = idx + 1
                    /\ UNCHANGED <<pc, sentPhotos, delivered>>
             ELSE IF ~decodeOK
               THEN /\ funcErr' = (funcErr \o errs) \o << <<"make collage", chatID>> >>
                    /\ faults' = Append(faults \o dfaults, [kind |-> "decode", chat |-> chatID])
                    /\ idx' = idx + 1
                    /\ UNCHANGED <<pc, sentPhotos, delivered>>
             ELSE IF ~sendOK
               THEN /\ funcErr' = (funcErr \o errs) \o << <<"send collage", chatID>> >>
                    /\ faults' = Append(faults \o dfaults, [kind |-> "send", chat |-> chatID])
                    /\ idx' = idx + 1
                    /\ UNCHANGED <<pc, sentPhotos, delivered>>
             ELSE /\ funcErr' = funcErr \o errs
                  /\ faults' = faults \o dfaults
                  /\ idx' = idx + 1
                  /\ sentPhotos' = Append(sentPhotos,
                         [chat |-> chatID, filename |-> Filename(date),
                          images |-> images, cols |-> cols,
                          rows |-> Rows(Len(images), cols)])
                  /\ delivered' = delivered \cup Range(images)
                  /\ pc' = pc
    /\ Len(faults') <= MaxFaults
    /\ UNCHANGED <<now, localOffset, chatsVal, kv, nextID, chats,
                   date, startID, fired, deletedMessages,
                   storeVars, layoutVars, tilerVars, lockVars>>

\* lines 163-228: one iteration of the loop over the chats
CronChannel(readOK, failed, decodeOK, sendOK) ==
    /\ pc = "loop"
    /\ idx <= Len(chats)
    /\ LET chatID == chats[idx]
           links == ReadLinks(chatID, date)
           images == Keep(links, failed, 1)
           errs == DownloadErrs(links, failed, 1)
           dfaults == DownloadFaults(chatID, links, failed, 1)
           cols == Cols(Len(images))
       IN /\ failed \subseteq DOMAIN links
          /\ IF ~readOK
               THEN /\ funcErr' = Append(funcErr, <<"reading keys by prefix", chatID>>)
                    /\ faults' = Append(faults, [kind |-> "read", chat |-> chatID])
                    /\ idx' = idx + 1
                    /\ UNCHANGED <<pc, sentPhotos, delivered>>
             ELSE IF cols = 0
               THEN /\ pc' = "crashed"           \* integer divide by zero, line 210
                    /\ funcErr' = funcErr \o errs
                    /\ faults' = faults \o dfaults
                    /\ UNCHANGED <<idx, sentPhotos, delivered>>
             ELSE IF ~decodeOK
               THEN /\ funcErr' = (funcErr \o errs) \o << <<"make collage", chatID>> >>
                    /\ faults' = Append(faults \o dfaults, [kind |-> "decode", chat |-> chatID])
                    /\ idx' = idx + 1
                    /\ UNCHANGED <<pc, sentPhotos, delivered>>
             ELSE IF ~sendOK
               THEN /\ funcErr' = (funcErr \o errs) \o << <<"send collage", chatID>> >>
                    /\ faults' = Append(faults \o dfaults, [kind |-> "send", chat |-> chatID])
                    /\ idx' = idx + 1
                    /\ UNCHANGED <<pc, sentPhotos, delivered>>
             ELSE /\ funcErr' = funcErr \o errs
                  /\ faults' = faults \o dfaults
                  /\ idx' = idx + 1
                  /\ sentPhotos' = Append(sentPhotos,
                         [chat |-> chatID, filename |-> Filename(date),
                          images |-> images, cols |-> cols,
                          rows |-> Rows(Len(images), cols)])
                  /\ delivered' = delivered \cup Range(images)
                  /\ pc' = pc
    /\ Len(faults') <= MaxFaults
    /\ UNCHANGED <<now, localOffset, chatsVal, kv, nextID, chats,
                   date, startID, fired, deletedMessages,
                   storeVars, layoutVars, tilerVars, lockVars>>

CronReturn ==
    /\ pc = "loop"
    /\ idx > Len(chats)
    /\ pc' = "done"
    /\ UNCHANGED <<now, localOffset, chatsVal, kv, nextID, chats, idx,
                   date, funcErr, startID, fired, faults, sentPhotos, delivered,
                   deletedMessages,
                   storeVars, layoutVars, tilerVars, lockVars>>

\* the cron entry logs the returned error (lines 91-96)
CronLogged ==
    /\ pc = "done"
    /\ pc' = "idle"
    /\ chats' = <<>>
    /\ idx' = 0
    /\ date' = 0
    /\ funcErr' = <<>>
    /\ startID' = 0
    /\ faults' = <<>>
    /\ sentPhotos' = <<>>
    /\ UNCHANGED <<now, localOffset, chatsVal, kv, nextID, fired, delivered,
                   deletedMessages,
                   storeVars, layoutVars, tilerVars, lockVars>>

\* the process is started again after a panic; its memory is lost
Restart ==
    /\ pc = "crashed"
    /\ pc' = "idle"
    /\ chats' = <<>>
    /\ idx' = 0
    /\ date' = 0
    /\ funcErr' = <<>>
    /\ startID' = 0
    /\ faults' = <<>>
    /\ sentPhotos' = <<>>
    /\ UNCHANGED <<now, localOffset, chatsVal, kv, nextID, fired, delivered,
                   deletedMessages,
                   storeVars, layoutVars, tilerVars, lockVars>>

Outcomes == BOOLEAN

Next ==
    \/ Tick
    \/ \E c \in ChatIDs : BotHandleMyChatMember(c)
    \/ \E c \in ChatIDs, d \in {now}, ok \in Outcomes :
          \E p \in {<<>>, Photo(nextID)} : BotHandleChannelPost(c, d, p, ok)
    \/ \E ok \in Outcomes : CronStart(ok)
    \/ \E r \in Outcomes, d \in Outcomes, s \in Outcomes :
          \E f \in SUBSET (1..MaxPosts) :
             CronChannel(r, f, d, s)
    \/ CronReturn
    \/ CronLogged
    \/ Restart

vars == <<appVars, storeVars, layoutVars, tilerVars, lockVars>>

Spec == Init /\ [][Next]_vars

\* The scheduler activates the entry every day, a started handler runs to its
\* end, and the container is started again after a panic.
FairSpec ==
    /\ Spec
    /\ WF_vars(Tick)
    /\ WF_vars(\E ok \in Outcomes : CronStart(ok))
    /\ WF_vars(\E r \in Outcomes, d \in Outcomes, s \in Outcomes :
                  \E f \in SUBSET (1..MaxPosts) : CronChannel(r, f, d, s))
    /\ WF_vars(CronReturn)
    /\ WF_vars(CronLogged)
    /\ WF_vars(Restart)

\* ------------------------------------------------------- storage (sqlite)
\* a time.Time value: an instant and the zone it is expressed in
Times == [unix : 0..MaxStamp, offset : LocalOffsets]

\* the registration events arrive at the start of the clock
RegTimes == {dt \in Times : dt.unix = 0}

Unix(dt) == dt.unix

\* time.Unix(timestamp, 0).Format(time.DateOnly): the day in time.Local
LocalDate(timestamp) == DateOnly(In(timestamp, localOffset))

RegisterChat(chatID, dt, dbOK) ==
    /\ IF dbOK /\ chatID \notin DOMAIN chatsTbl
         THEN /\ chatsTbl' = Put(chatsTbl, chatID, Unix(dt))
              /\ ret' = [op |-> "RegisterChat", err |-> "nil"]
         ELSE /\ chatsTbl' = chatsTbl
              /\ ret' = [op |-> "RegisterChat", err |-> "register chat"]
    /\ UNCHANGED <<linksTbl, appVars, layoutVars, tilerVars, lockVars>>

RegistreLink(chatID, messageID, dt, link, dbOK) ==
    /\ Len(linksTbl) < MaxRows
    /\ IF dbOK
         THEN /\ linksTbl' = Append(linksTbl,
                     [chat_id |-> chatID, timestamp |-> Unix(dt),
                      url |-> link, message_id |-> messageID])
              /\ ret' = [op |-> "RegistreLink", err |-> "nil"]
         ELSE /\ linksTbl' = linksTbl
              /\ ret' = [op |-> "RegistreLink", err |-> "register new link"]
    /\ UNCHANGED <<chatsTbl, appVars, layoutVars, tilerVars, lockVars>>

RECURSIVE SortInts(_)
SortInts(S) ==
    IF S = {} THEN <<>>
    ELSE LET m == CHOOSE x \in S : \A y \in S : x <= y
         IN <<m>> \o SortInts(S \ {m})

StorageChats(dbOK) ==
    /\ ret' = IF dbOK
                THEN [op |-> "Chats", chats |-> SortInts(DOMAIN chatsTbl), err |-> "nil"]
                ELSE [op |-> "Chats", chats |-> <<>>, err |-> "select chats"]
    /\ UNCHANGED <<chatsTbl, linksTbl, appVars, layoutVars, tilerVars, lockVars>>

\* the orders in which "where chat_id = ? order by timestamp asc" may return
\* the rows: sequences of row numbers; rows of equal timestamp come in any order
SelectLinks(chatID) ==
    LET idxs == {i \in DOMAIN linksTbl : linksTbl[i].chat_id = chatID}
        n == Cardinality(idxs)
    IN {o \in [1..n -> idxs] :
          /\ \A i, j \in 1..n : i # j => o[i] # o[j]
          /\ \A i \in 1..n : i < n =>
                linksTbl[o[i]].timestamp <= linksTbl[o[i + 1]].timestamp}

\* Collect without the assignment prevDate = date of line 315
RECURSIVE CollectKeepsPrevDate(_, _, _, _, _)
CollectKeepsPrevDate(o, i, messages, toCollageArr, prevDate) ==
    IF i > Len(o) THEN [messages |-> messages, toCollage |-> toCollageArr]
    ELSE LET row == linksTbl[o[i]]
             d == LocalDate(row.timestamp)
             arr == IF prevDate # d
                      THEN Append(toCollageArr, [date |-> d, links |-> <<>>])
                      ELSE toCollageArr
             last == Len(arr)
         IN CollectKeepsPrevDate(o, i + 1, Append(messages, row.message_id),
                    [arr EXCEPT ![last].links = Append(@, row.url)], prevDate)

\* the rows.Next() loop of Links over the row numbers o, from position i
RECURSIVE Collect(_, _, _, _, _)
Collect(o, i, messages, toCollageArr, prevDate) ==
    IF i > Len(o) THEN [messages |-> messages, toCollage |-> toCollageArr]
    ELSE LET row == linksTbl[o[i]]
             d == LocalDate(row.timestamp)
             arr == IF prevDate # d
                      THEN Append(toCollageArr, [date |-> d, links |-> <<>>])
                      ELSE toCollageArr
             last == Len(arr)
         IN Collect(o, i + 1, Append(messages, row.message_id),
                    [arr EXCEPT ![last].links = Append(@, row.url)], d)

\* the query was the last operation of the store and returned these rows:
\* sqlite yields the rows of an unchanged database in the same order again
SameScan(chatID, messages) ==
    (ret.op = "Links" /\ ret.err = "nil" /\ ret.chat = chatID) => messages = ret.messages

\* Links deleting the rows it has read
StorageLinksDrops(chatID, dbOK) ==
    /\ IF dbOK
         THEN /\ \E o \in SelectLinks(chatID) :
                    LET r == Collect(o, 1, <<>>, <<>>, 0)
                    IN /\ SameScan(chatID, r.messages)
                       /\ ret' = [op |-> "Links", chat |-> chatID,
                                  messages |-> r.messages,
                                  toCollage |-> r.toCollage, err |-> "nil"]
              /\ linksTbl' = SelectSeq(linksTbl, LAMBDA row : row.chat_id # chatID)
         ELSE /\ ret' = [op |-> "Links", chat |-> chatID, messages |-> <<>>,
                         toCollage |-> <<>>, err |-> "select links"]
              /\ linksTbl' = linksTbl
    /\ UNCHANGED <<chatsTbl, appVars, layoutVars, tilerVars, lockVars>>

StorageLinks(chatID, dbOK) ==
    /\ IF dbOK
         THEN \E o \in SelectLinks(chatID) :
                 LET r == Collect(o, 1, <<>>, <<>>, 0)
                 IN /\ SameScan(chatID, r.messages)
                    /\ ret' = [op |-> "Links", chat |-> chatID,
                               messages |-> r.messages,
                               toCollage |-> r.toCollage, err |-> "nil"]
         ELSE ret' = [op |-> "Links", chat |-> chatID, messages |-> <<>>,
                      toCollage |-> <<>>, err |-> "select links"]
    /\ UNCHANGED <<chatsTbl, linksTbl, appVars, layoutVars, tilerVars, lockVars>>

StoreNext ==
    \/ \E c \in ChatIDs, dt \in RegTimes, ok \in BOOLEAN : RegisterChat(c, dt, ok)
    \/ \E c \in ChatIDs, dt \in Times, ok \in BOOLEAN :
          RegistreLink(c, Len(linksTbl) + 1, dt,
                       FileDownloadLink(Len(linksTbl) + 1), ok)
    \/ \E ok \in BOOLEAN : StorageChats(ok)
    \/ \E c \in ChatIDs, ok \in BOOLEAN : StorageLinks(c, ok)

\* the store is used by a process in any zone
StoreSpecInit ==
    /\ localOffset \in LocalOffsets
    /\ AppInit
    /\ StoreInit
    /\ layoutN = 0
    /\ layoutOut = [st |-> "none"]
    /\ TilerInit
    /\ LockInit

StoreSpec == StoreSpecInit /\ [][StoreNext]_vars

\* --------------------------------------------- storage: deleting link rows
\* the rows of the table that are left when the rows with these message ids go
Without(ids) == SelectSeq(linksTbl, LAMBDA row : row.message_id \notin ids)

\* DeleteLinks failing when one of the ids has no row
DeleteLinksStrict(ids, dbOK) ==
    /\ LET left == Without(ids)
           present == {linksTbl[i].message_id : i \in DOMAIN linksTbl}
       IN IF dbOK /\ ids \subseteq present
            THEN /\ linksTbl' = left
                 /\ ret' = [op |-> "DeleteLinks", ids |-> ids, db |-> dbOK,
                            removed |-> Len(linksTbl) - Len(left), err |-> "nil"]
            ELSE /\ linksTbl' = linksTbl
                 /\ ret' = [op |-> "DeleteLinks", ids |-> ids, db |-> dbOK,
                            removed |-> 0, err |-> "delete links"]
    /\ UNCHANGED <<chatsTbl, appVars, layoutVars, tilerVars, lockVars>>

\* DeleteLinks(message_ids): removes the rows with the given message ids; an
\* id without a row is not an error. db: whether the statement ran; removed:
\* the number of rows affected.
DeleteLinks(ids, dbOK) ==
    /\ LET left == Without(ids)
       IN IF dbOK
            THEN /\ linksTbl' = left
                 /\ ret' = [op |-> "DeleteLinks", ids |-> ids, db |-> dbOK,
                            removed |-> Len(linksTbl) - Len(left), err |-> "nil"]
            ELSE /\ linksTbl' = linksTbl
                 /\ ret' = [op |-> "DeleteLinks", ids |-> ids, db |-> dbOK,
                            removed |-> 0, err |-> "delete links"]
    /\ UNCHANGED <<chatsTbl, appVars, layoutVars, tilerVars, lockVars>>

\* message ids are per channel: two channels may hold the same id
MessageIDs == 1..MaxRows

\* the posts whose rows are deleted are all of one instant
PostTime == [unix |-> 0, offset |-> MoscowOffset]

DeleteNext ==
    \/ \E c \in ChatIDs, m \in MessageIDs, ok \in BOOLEAN :
          RegistreLink(c, m, PostTime, FileDownloadLink(m), ok)
    \/ \E ids \in SUBSET MessageIDs, ok \in BOOLEAN : DeleteLinks(ids, ok)

DeleteSpec == StoreSpecInit /\ [][DeleteNext]_vars

\* ------------------------------------------------- storage: the lock
\* the methods that take s.mu.Lock, those that take s.mu.RLock, and Close
WriteOps == {"RegisterChat", "RegistreLink"}
ReadOps == {"Chats", "Links"}
StoreOps == WriteOps \cup ReadOps \cup {"Close"}

\* a goroutine calls a method of the store
Call(g, op) ==
    /\ calls[g].at = "idle"
    /\ calls' = [calls EXCEPT ![g] = [op |-> op, at |-> "entry"]]
    /\ UNCHANGED <<mu, closed, appVars, storeVars, layoutVars, tilerVars>>

\* s.mu.Lock() (lines 231, 243): waits until nobody holds the lock
Lock(g) ==
    /\ calls[g].at = "entry"
    /\ calls[g].op \in WriteOps
    /\ mu.writer = 0
    /\ mu.readers = {}
    /\ mu' = [mu EXCEPT !.writer = g]
    /\ calls' = [calls EXCEPT ![g].at = "db"]
    /\ UNCHANGED <<closed, appVars, storeVars, layoutVars, tilerVars>>

\* s.mu.RLock() (lines 257, 285): waits until no writer holds the lock
RLock(g) ==
    /\ calls[g].at = "entry"
    /\ calls[g].op \in ReadOps
    /\ mu.writer = 0
    /\ mu' = [mu EXCEPT !.readers = @ \cup {g}]
    /\ calls' = [calls EXCEPT ![g].at = "db"]
    /\ UNCHANGED <<closed, appVars, storeVars, layoutVars, tilerVars>>

\* Close (lines 324-326) goes to s.db without taking the lock
CloseEnter(g) ==
    /\ calls[g].at = "entry"
    /\ calls[g].op = "Close"
    /\ calls' = [calls EXCEPT ![g].at = "db"]
    /\ UNCHANGED <<mu, closed, appVars, storeVars, layoutVars, tilerVars>>

\* the method has used s.db and returns; the deferred Unlock or RUnlock runs
Return(g) ==
    /\ calls[g].at = "db"
    /\ mu' = IF calls[g].op \in WriteOps THEN [mu EXCEPT !.writer = 0]
             ELSE IF calls[g].op \in ReadOps THEN [mu EXCEPT !.readers = @ \ {g}]
             ELSE mu
    /\ closed' = (closed \/ calls[g].op = "Close")
    /\ calls' = [calls EXCEPT ![g] = [op |-> "none", at |-> "idle"]]
    /\ UNCHANGED <<appVars, storeVars, layoutVars, tilerVars>>

LockNext ==
    \/ \E g \in Goroutines, op \in StoreOps : Call(g, op)
    \/ \E g \in Goroutines : Lock(g)
    \/ \E g \in Goroutines : RLock(g)
    \/ \E g \in Goroutines : CloseEnter(g)
    \/ \E g \in Goroutines : Return(g)

LockSpec == StoreSpecInit /\ [][LockNext]_vars

\* ------------------------------------------------ layout as a pure function
\* lines 209-213 of cronHandler applied to len(images) = layoutN
ComputeLayout ==
    /\ layoutOut.st = "none"
    /\ layoutOut' = IF Cols(layoutN) = 0
                      THEN [st |-> "panic"]
                      ELSE [st |-> "ok", cols |-> Cols(layoutN),
                            rows |-> Rows(layoutN, Cols(layoutN))]
    /\ UNCHANGED <<layoutN, appVars, storeVars, tilerVars, lockVars>>

LayoutInit ==
    /\ localOffset \in LocalOffsets
    /\ AppInit
    /\ StoreInit
    /\ layoutN \in 0..MaxImages
    /\ layoutOut = [st |-> "none"]
    /\ TilerInit
    /\ LockInit

LayoutNext == ComputeLayout

LayoutSpec == LayoutInit /\ [][LayoutNext]_vars

\* ------------------------------------------- image tiler (pkg/image)
\* the sizes of the decoded images (Bounds().Dx(), Bounds().Dy())
ImageSizes == {[w |-> 2, h |-> 1], [w |-> 1, h |-> 2]}

\* an image file: the size of the picture in it, and whether it decodes
ImageFiles == [size : ImageSizes, ok : BOOLEAN]

White == <<"white">>

\* the pixel (x, y) of the input image with index i
Pixel(i, x, y) == <<"img", i, x, y>>

\* DrawImage with the column taken from idx / cols and the row from idx % cols
DrawImageColumnMajor(pix, i, img, cols, imgWidth, imgHeight) ==
    LET xOffset == (i \div cols) * imgWidth
        yOffset == (i % cols) * imgHeight
    IN [p \in DOMAIN pix |->
          IF /\ xOffset <= p[1] /\ p[1] < xOffset + imgWidth
             /\ yOffset <= p[2] /\ p[2] < yOffset + imgHeight
             /\ p[1] - xOffset < img.w
             /\ p[2] - yOffset < img.h
            THEN Pixel(i, p[1] - xOffset, p[2] - yOffset)
            ELSE pix[p]]

\* draw.Draw(newImage, r, img, image.Point{}, draw.Src) for the image with
\* index i (lines 32-35): the pixels of r that lie on the canvas and on img
DrawImage(pix, i, img, cols, imgWidth, imgHeight) ==
    LET xOffset == (i % cols) * imgWidth
        yOffset == (i \div cols) * imgHeight
    IN [p \in DOMAIN pix |->
          IF /\ xOffset <= p[1] /\ p[1] < xOffset + imgWidth
             /\ yOffset <= p[2] /\ p[2] < yOffset + imgHeight
             /\ p[1] - xOffset < img.w
             /\ p[2] - yOffset < img.h
            THEN Pixel(i, p[1] - xOffset, p[2] - yOffset)
            ELSE pix[p]]

\* the loop of lines 31-36 from the image with index i on
RECURSIVE DrawFrom(_, _, _, _, _, _)
DrawFrom(pix, i, images, cols, imgWidth, imgHeight) ==
    IF i >= Len(images) THEN pix
    ELSE DrawFrom(DrawImage(pix, i, images[i + 1], cols, imgWidth, imgHeight),
                  i + 1, images, cols, imgWidth, imgHeight)

\* concat (lines 13-39) on decoded images
concat(images, rows, cols) ==
    IF Len(images) = 0 THEN [st |-> "nil"]
    ELSE LET imgWidth == images[1].w
             imgHeight == images[1].h
             gridWidth == cols * imgWidth
             gridHeight == rows * imgHeight
             blank == [p \in (0..(gridWidth - 1)) \X (0..(gridHeight - 1)) |-> White]
         IN IF cols = 0
              THEN [st |-> "panic"]       \* idx % cols, line 32
              ELSE [st |-> "image", w |-> gridWidth, h |-> gridHeight,
                    pix |-> DrawFrom(blank, 0, images, cols, imgWidth, imgHeight)]

\* encode (lines 50-58): the JPEG file of an image
encode(img) == [jpeg |-> img]

\* Concat (lines 60-72)
Concat(images, rows, cols) ==
    IF \E i \in DOMAIN images : ~images[i].ok
      THEN [st |-> "err", err |-> "concat images"]
      ELSE LET collage == concat([i \in DOMAIN images |-> images[i].size], rows, cols)
           IN IF collage.st = "panic" THEN [st |-> "panic"]
              ELSE IF collage.st = "nil"
                THEN [st |-> "panic"]     \* jpeg.Encode calls Bounds() of a nil image
                ELSE [st |-> "ok", data |-> encode(collage)]

CallConcat ==
    /\ tileOut.st = "none"
    /\ tileOut' = Concat(tileIn.images, tileIn.rows, tileIn.cols)
    /\ UNCHANGED <<tileIn, appVars, storeVars, layoutVars, lockVars>>

SeqsUpTo(S, n) == UNION {[1..k -> S] : k \in 0..n}

TilerSpecInit ==
    /\ localOffset \in LocalOffsets
    /\ AppInit
    /\ StoreInit
    /\ layoutN = 0
    /\ layoutOut = [st |-> "none"]
    /\ tileIn \in [images : SeqsUpTo(ImageFiles, MaxTiles),
                   rows : 0..MaxGrid, cols : 0..MaxGrid]
    /\ tileOut = [st |-> "none"]
    /\ LockInit

TilerNext == CallConcat

TilerSpec == TilerSpecInit /\ [][TilerNext]_vars

\* ================================================================ claims
\* ------------------------------------------------------------------- C1
RowsOf(chatID) == {i \in DOMAIN linksTbl : linksTbl[i].chat_id = chatID}

InsertedIncreasing(chatID) ==
    \A i, j \in RowsOf(chatID) :
        i < j => linksTbl[i].timestamp < linksTbl[j].timestamp

RowOfUrl(u) == CHOOSE i \in DOMAIN linksTbl : linksTbl[i].url = u

DrainedOK == ret.op = "Links" /\ ret.err = "nil"

\* C1: when the links of a channel were inserted with strictly increasing
\* timestamps, Links returns non-empty groups in ascending day order, the
\* links of each group in ascending timestamp order, and every link row of
\* the channel in exactly one group, the group of its calendar day.
C1_GroupsPartitionByDay ==
    (DrainedOK /\ InsertedIncreasing(ret.chat)) =>
        LET g == ret.toCollage
        IN /\ \A i \in DOMAIN g : g[i].links # <<>>
           /\ \A i, j \in DOMAIN g : i < j => g[i].date < g[j].date
           /\ \A i \in DOMAIN g : \A a, b \in DOMAIN g[i].links :
                 a < b => linksTbl[RowOfUrl(g[i].links[a])].timestamp
                            < linksTbl[RowOfUrl(g[i].links[b])].timestamp
           /\ \A r \in RowsOf(ret.chat) :
                 Cardinality({<<i, k>> \in (DOMAIN g) \X (1..(MaxRows + 1)) :
                                 /\ k \in DOMAIN g[i].links
                                 /\ g[i].links[k] = linksTbl[r].url}) = 1
           /\ \A i \in DOMAIN g : \A k \in DOMAIN g[i].links :
                 \E r \in RowsOf(ret.chat) :
                    /\ linksTbl[r].url = g[i].links[k]
                    /\ LocalDate(linksTbl[r].timestamp) = g[i].date

C1_Witness ==
    /\ DrainedOK
    /\ InsertedIncreasing(ret.chat)
    /\ Len(ret.toCollage) >= 2
    /\ \E i \in DOMAIN ret.toCollage : Len(ret.toCollage[i].links) >= 2

\* ------------------------------------------------------- runs of the App
ChatPrefix(chatID) == FmtInt(chatID) \o <<Sep>>

KeysOf(chatID) == {k \in DOMAIN kv : HasPrefix(k, ChatPrefix(chatID))}

\* the DateOnly field of a link key
DateOfKey(k) == k[Len(k) - 2]

DatesOf(chatID) == {DateOfKey(k) : k \in KeysOf(chatID)}

SentTo(chatID) == SelectSeq(sentPhotos, LAMBDA p : p.chat = chatID)

NamesSentTo(chatID) == [i \in 1..Len(SentTo(chatID)) |-> SentTo(chatID)[i].filename]

ImagesSentTo(chatID) == UNION {Range(SentTo(chatID)[i].images) : i \in 1..Len(SentTo(chatID))}

DayNames(chatID) ==
    LET ds == SortInts(DatesOf(chatID))
    IN [i \in 1..Len(ds) |-> Filename(ds[i])]

NoDuplicates(seq) == \A i, j \in DOMAIN seq : i # j => seq[i] # seq[j]

\* the handler returned, every chat was registered once and no post was
\* stored while the run was going on
RunOver == pc = "done" /\ chats # <<>> /\ NoDuplicates(chats) /\ nextID = startID

\* ------------------------------------------------------------------- C2
\* C2: in a run without failures every registered channel receives exactly
\* one collage per calendar day on which it has a link, in ascending day
\* order, each named collage_<day>.jpg.
C2_OneCollagePerDay ==
    (RunOver /\ faults = <<>> /\ funcErr = <<>>) =>
        \A c \in Range(chats) : NamesSentTo(c) = DayNames(c)

\* ------------------------------------------------------------------- C3
\* C3: after a run in which every collage of a channel was emitted and no
\* call failed, the store holds no link row of that channel.
C3_StoreEmptyAfterRun ==
    (RunOver /\ faults = <<>> /\ funcErr = <<>>) =>
        \A c \in Range(chats) : SentTo(c) # <<>> => KeysOf(c) = {}

\* ------------------------------------------------------------------- C4
\* C4: when a collage was emitted but the source messages and rows were not
\* deleted, the rows stay in the store and the next run that works collages
\* the same links again.
C4_RowsKeptAndCollagedAgain ==
    (RunOver /\ faults = <<>> /\ funcErr = <<>>) =>
        \A c \in Range(chats) : \A k \in KeysOf(c) :
            kv[k] \in delivered => kv[k] \in ImagesSentTo(c)

\* ------------------------------------------------------------------- C5
LinkRows == {<<k, kv[k]>> : k \in DOMAIN kv}

RunStep == <<pc, idx>>' # <<pc, idx>>

\* C5: a step of a run removes a link row from the store only if the row's
\* link is in a collage that was emitted in that run; a row whose collage
\* failed to be sent stays in the store.
C5_DeleteOnlyAfterEmission ==
    [][RunStep =>
         \A r \in LinkRows :
            r \notin LinkRows' =>
               \E i \in DOMAIN sentPhotos' : r[2] \in Range(sentPhotos'[i].images)]_vars

C5_Witness ==
    /\ pc = "done"
    /\ \E i \in DOMAIN faults :
          /\ faults[i].kind = "send"
          /\ \E k \in KeysOf(faults[i].chat) : DateOfKey(k) = date
    /\ sentPhotos # <<>>

\* ------------------------------------------------------------------- C6
AllLinks == {FileDownloadLink(i) : i \in 1..MaxPosts}

\* the link is stored for a registered chat
Recorded(u) ==
    \E c \in Range(chatsVal) : \E k \in KeysOf(c) : kv[k] = u

\* C6: when the failures of the store and of the network stop occurring,
\* every link recorded for a registered channel is eventually part of an
\* emitted collage (as long as it stays in the store), whenever it was
\* posted and whichever run failed before.
C6_EveryLinkEventuallyCollaged ==
    (<>[](faults = <<>>)) =>
        \A u \in AllLinks : Recorded(u) ~> (u \in delivered \/ ~Recorded(u))

\* ------------------------------------------------------------------- C7
\* C7: when only the drain of channel A fails, the run returns exactly that
\* one failure and emits every collage of every other channel.
C7_DrainFailureIsolated ==
    \A a \in ChatIDs :
        (RunOver /\ faults = << [kind |-> "read", chat |-> a] >>) =>
            /\ funcErr = << <<"reading keys by prefix", a>> >>
            /\ \A b \in Range(chats) \ {a} : NamesSentTo(b) = DayNames(b)

\* ------------------------------------------------------------------- C8
\* C8: once the chats are listed a run never crashes, it returns after the
\* last listed chat, and it returns nil exactly when no step failed.
C8_RunAlwaysReturns ==
    /\ pc # "crashed"
    /\ (pc = "done" /\ chats # <<>>) =>
          /\ idx = Len(chats) + 1
          /\ (funcErr = <<>>) <=> (faults = <<>>)

\* ------------------------------------------------------------------- C9
ListFailed == chatsVal = <<>> \/ (faults # <<>> /\ faults[1].kind = "list")

\* C9: a run whose listing of the chats fails (also because no chat was ever
\* registered) returns an error at once: it sends no collage, changes no
\* row, and processes no chat.
C9_ListFailureAborts ==
    [][(pc = "idle" /\ pc' # "idle" /\ ListFailed') =>
          /\ pc' = "done"
          /\ funcErr' # <<>>
          /\ sentPhotos' = <<>>
          /\ delivered' = delivered
          /\ kv' = kv]_vars

C9_Witness ==
    /\ pc = "done"
    /\ faults = << [kind |-> "list", chat |-> 0] >>
    /\ \E c \in Range(chatsVal) : \E k \in KeysOf(c) : DateOfKey(k) = DateOnly(In(now, MoscowOffset))
    /\ funcErr # <<>>
    /\ sentPhotos = <<>>

\* ------------------------------------------------------------------ C10
\* C10: for N >= 1 images the layout has cols = min(5, N) and
\* rows = ceil(N / cols): 1 <= cols <= 5, rows * cols >= N and
\* (rows - 1) * cols < N.
C10_GridLayout ==
    (layoutN >= 1 /\ layoutOut.st # "none") =>
        /\ layoutOut.st = "ok"
        /\ layoutOut.cols >= 1 /\ layoutOut.cols <= 5 /\ layoutOut.cols <= layoutN
        /\ (layoutOut.cols = 5 \/ layoutOut.cols = layoutN)
        /\ layoutOut.rows * layoutOut.cols >= layoutN
        /\ (layoutOut.rows - 1) * layoutOut.cols < layoutN

C10_Witness ==
    /\ layoutOut.st = "ok"
    /\ layoutN > 5
    /\ layoutN % 5 # 0
    /\ layoutOut.rows >= 2

\* ------------------------------------------------------------------ C11
\* the faults that the step adds to the run
NewFaults == SubSeq(faults', Len(faults) + 1, Len(faults'))

\* a step of the loop that read the chat's links and fetched none of them
ZeroImagesStep ==
    /\ pc = "loop"
    /\ idx <= Len(chats)
    /\ RunStep
    /\ LET links == ReadLinks(chats[idx], date)
       IN NewFaults = [j \in 1..Len(links) |->
                          [kind |-> "download", chat |-> chats[idx]]]

\* C11: when zero images are available for a channel's group (no link for
\* the day, or every fetch failed) the run does not crash in the layout: it
\* sends nothing for the group, records an error for it and goes on with the
\* next channel.
C11_ZeroImagesSkipped ==
    [][ZeroImagesStep =>
          /\ pc' = "loop"
          /\ idx' = idx + 1
          /\ sentPhotos' = sentPhotos
          /\ Len(funcErr') > Len(funcErr)]_vars

\* ------------------------------------------------------------------ C12
\* C12: Concat called with zero images returns a well-defined empty result
\* without an error and without crashing, for any rows and cols.
C12_EmptyInputNoCrash ==
    (tileOut.st # "none" /\ tileIn.images = <<>>) => tileOut.st = "ok"

\* ------------------------------------------------------------------ C13
TileCount == Len(tileIn.images)

EqualSizes == \A i, j \in DOMAIN tileIn.images : tileIn.images[i].size = tileIn.images[j].size

\* Concat returned the file of a canvas tiled from N >= 1 images of one size
\* with room for all of them
Tiled ==
    /\ tileOut.st = "ok"
    /\ TileCount >= 1
    /\ EqualSizes
    /\ tileIn.rows * tileIn.cols >= TileCount

\* C13: for N >= 1 images of one size and rows * cols >= N the canvas is
\* cols * cellWidth by rows * cellHeight, the cell with index k < N (row
\* k / cols, column k % cols, row-major from the top left) shows image k,
\* pixel for pixel, and every cell with index >= N is white.
C13_RowMajorTiling ==
    Tiled =>
        LET img == tileOut.data.jpeg
            cw == tileIn.images[1].size.w
            ch == tileIn.images[1].size.h
        IN /\ img.w = tileIn.cols * cw
           /\ img.h = tileIn.rows * ch
           /\ DOMAIN img.pix = (0..(img.w - 1)) \X (0..(img.h - 1))
           /\ \A p \in DOMAIN img.pix :
                 LET k == (p[2] \div ch) * tileIn.cols + (p[1] \div cw)
                 IN img.pix[p] = IF k < TileCount
                                   THEN Pixel(k, p[1] % cw, p[2] % ch)
                                   ELSE White

\* three images, cols = 2, rows = 2: the bottom-right cell is background
C13_Witness ==
    /\ Tiled
    /\ TileCount = 3
    /\ tileIn.cols = 2
    /\ tileIn.rows = 2
    /\ LET img == tileOut.data.jpeg
       IN img.pix[<<img.w - 1, img.h - 1>>] = White

\* ------------------------------------------------------------------ C14
\* C14: DeleteLinks tolerates absent ids and is idempotent: unless the
\* database fails it returns no error and leaves exactly the rows whose
\* message id is not in the list, and a second call with the same list
\* returns no error and leaves the store as the first call left it.
C14_DeleteIdempotent ==
    [][(ret'.op = "DeleteLinks" /\ ret'.db) =>
          /\ ret'.err = "nil"
          /\ linksTbl' = Without(ret'.ids)
          /\ chatsTbl' = chatsTbl
          /\ (ret.op = "DeleteLinks" /\ ret.err = "nil" /\ ret.ids = ret'.ids)
                => linksTbl' = linksTbl]_vars

\* a call that found rows for some of its ids and no row for the others
C14_Witness ==
    /\ ret.op = "DeleteLinks"
    /\ ret.err = "nil"
    /\ ret.removed = 1
    /\ Cardinality(ret.ids) = 2
    /\ linksTbl # <<>>

\* ------------------------------------------------------------------ C15
\* the links of the photo posts stored so far
StoredLinks == {FileDownloadLink(i) : i \in 1..(nextID - 1)}

\* C15: posts of one channel with the same timestamp are all preserved:
\* while the clock stands at the instant of the first post, so that every
\* post stored so far carries that timestamp, the read of some channel's
\* links of that day returns the link of every one of them.
C15_SameSecondPostsKept ==
    now = 0 =>
        \A u \in StoredLinks :
            \E c \in ChatIDs : u \in Range(ReadLinks(c, DateOnly(In(now, MoscowOffset))))

\* ------------------------------------------------------------------ C16
\* C16: after any sequence of registration events the list of the channels
\* contains each channel id at most once, so a run processes no channel
\* twice.
C16_ChannelsListedOnce ==
    /\ NoDuplicates(chatsVal)
    /\ NoDuplicates(chats)
    /\ \A c \in ChatIDs : Len(SentTo(c)) <= 1

\* ------------------------------------------------------------------ C17
\* C17: Links is a read-only query: it leaves the link rows and the
\* registrations unchanged, and a second drain of the same channel right
\* after a first one returns the same message ids and the same groups.
C17_DrainReadOnly ==
    [][ret'.op = "Links" =>
          /\ linksTbl' = linksTbl
          /\ chatsTbl' = chatsTbl
          /\ (ret.op = "Links" /\ ret.chat = ret'.chat
                  /\ ret.err = "nil" /\ ret'.err = "nil")
                => /\ ret'.messages = ret.messages
                   /\ ret'.toCollage = ret.toCollage]_vars

\* a drain that returned the rows of a channel, of which two have one
\* timestamp, and left them in the table
C17_Witness ==
    /\ DrainedOK
    /\ Len(ret.messages) >= 2
    /\ Len(ret.messages) = Cardinality(RowsOf(ret.chat))
    /\ ~InsertedIncreasing(ret.chat)
    /\ chatsTbl # <<>>

\* ------------------------------------------------------------------ C18
\* the errors that the step joins to the returned error
NewErrs == SubSeq(funcErr', Len(funcErr) + 1, Len(funcErr'))

\* a step of the loop in which some but not all downloads of the group
\* failed and nothing else did
PartialFetchStep ==
    /\ pc = "loop"
    /\ idx <= Len(chats)
    /\ RunStep
    /\ NewFaults # <<>>
    /\ \A i \in DOMAIN NewFaults : NewFaults[i].kind = "download"
    /\ Len(NewFaults) < Len(ReadLinks(chats[idx], date))

PositionIn(seq, x) == CHOOSE i \in DOMAIN seq : seq[i] = x

MessageOf(u) == u[2]

\* the message ids of the chat's stored links, in timestamp order
MessagesOf(chatID) ==
    LET ks == SortKeys(KeysOf(chatID))
    IN [i \in 1..Len(ks) |-> MessageOf(kv[ks[i]])]

DeleteRequestsFor(chatID) == SelectSeq(deletedMessages, LAMBDA r : r.chat = chatID)

\* C19: in a run without failures each channel that was sent its collages
\* gets one delete-messages request, carrying exactly the message ids of
\* its links in timestamp order.
C19_DeleteRequestAfterGroups ==
    (RunOver /\ faults = <<>> /\ funcErr = <<>>) =>
        \A c \in Range(chats) :
            SentTo(c) # <<>> =>
                /\ Len(DeleteRequestsFor(c)) = 1
                /\ DeleteRequestsFor(c)[1].ids = MessagesOf(c)

\* ------------------------------------------------------------------ C20
\* the links of the posts stored since the run started
RecordedInRun == {FileDownloadLink(i) : i \in startID..(nextID - 1)}

AllSent == UNION {Range(sentPhotos[i].images) : i \in DOMAIN sentPhotos}

\* C20: ingestion concurrent with a run loses no link: when the run returns,
\* every link recorded while it was going on is in a collage of the run or
\* still in the store.
C20_NoLinkLostDuringRun ==
    (pc = "done" /\ chats # <<>>) =>
        \A u \in RecordedInRun : u \in AllSent \/ u \in Range(kv)

\* ------------------------------------------------------------------ C21
InDB(g) == calls[g].at = "db"

Holds(g) == mu.writer = g \/ g \in mu.readers

\* C21: every operation of the store, Close included, uses the database
\* only while it holds the store's lock; a write runs concurrently with no
\* other operation, and reads overlap only with reads.
C21_StoreLocking ==
    /\ \A g \in Goroutines : InDB(g) => Holds(g)
    /\ \A g, h \in Goroutines :
          (g # h /\ InDB(g) /\ InDB(h)) =>
              (calls[g].op \in ReadOps /\ calls[h].op \in ReadOps)

\* ------------------------------------------------------------------ C22
\* the day of a stored timestamp in Europe/Moscow
MoscowDate(timestamp) == DateOnly(In(timestamp, MoscowOffset))

\* C22: the day under which a link is grouped is the day of its stored
\* timestamp in Europe/Moscow, in whatever zone the process that drains
\* runs, so the groups of a set of rows are the same in every process.
C22_GroupDayInFixedZone ==
    DrainedOK =>
        \A i \in DOMAIN ret.toCollage :
            \A k \in DOMAIN ret.toCollage[i].links :
                ret.toCollage[i].date =
                    MoscowDate(linksTbl[RowOfUrl(ret.toCollage[i].links[k])].timestamp)

\* ------------------------------------------------------------------ C23
ErrNoRows == "sql: no rows in result set"

\* C23: Links called for a channel without link rows returns no message id,
\* no group and the error sql.ErrNoRows (unless the query itself fails).
C23_NoRowsError ==
    (ret.op = "Links" /\ ret.err # "select links" /\ RowsOf(ret.chat) = {}) =>
        /\ ret.messages = <<>>
        /\ ret.toCollage = <<>>
        /\ ret.err = ErrNoRows

\* ------------------------------------------------------------------ C24
\* the chat id printed at the start of a link key, read back as a number
RECURSIVE ParseDigits(_)
ParseDigits(ds) ==
    IF ds = <<>> THEN 0
    ELSE 10 * ParseDigits(SubSeq(ds, 1, Len(ds) - 1)) + ds[Len(ds)]

ChatOfKey(k) ==
    LET i == CHOOSE i \in DOMAIN k : k[i] = Sep /\ \A j \in 1..(i - 1) : k[j] # Sep
        ds == SubSeq(k, 1, i - 1)
    IN IF ds[1] = Minus THEN 0 - ParseDigits(Tail(ds)) ELSE ParseDigits(ds)

\* C24: channels are isolated: the collage that a step of the run sends to
\* a channel is made only of links that are stored under that channel's own
\* id, also when the decimal text of one id starts with that of another (1
\* and 11).
C24_ChannelIsolation ==
    [][(RunStep /\ Len(sentPhotos') = Len(sentPhotos) + 1) =>
          LET p == sentPhotos'[Len(sentPhotos')]
          IN /\ p.chat = chats[idx]
             /\ \A u \in Range(p.images) :
                   /\ \E k \in DOMAIN kv : kv[k] = u
                   /\ \A k \in DOMAIN kv : kv[k] = u => ChatOfKey(k) = p.chat]_vars

\* a collage was sent to chat 1 while chat 11 has a link of the same day
C24_Witness ==
    /\ pc = "done"
    /\ \E i \in DOMAIN sentPhotos :
          /\ sentPhotos[i].chat = 1
          /\ \E k \in KeysOf(11) : DateOfKey(k) = date
    /\ \E k \in KeysOf(1) : DateOfKey(k) = date

====
